---- MODULE Spec2Model ----
(***************************************************************************)
(* UVPCB.ino: countdown timer of a UV exposure chamber.  The main loop      *)
(* polls a rotary encoder (counted by the interrupt handler doEncoder) and  *)
(* its push button, runs a one-second countdown and drives a relay.         *)
(*                                                                          *)
(* One action is one iteration of loop(), one poll of the acknowledgment    *)
(* wait inside countdownFinished()/abortCountdown(), one run of the         *)
(* interrupt handler, or one move of the environment (clock, button).       *)
(***************************************************************************)
EXTENDS Integers, FiniteSets, Sequences, TLC

\* ------------------------------------------------------------- constants
SCREEN_WIDTH == 128
DEBOUNCE_DELAY == 300
FAST_THRESHOLD == 60
MIN_TIME == 1
MAX_TIME == 1800
TICK_PERIOD == 1000

\* pin levels
LOW == FALSE
HIGH == TRUE

\* ---------------------------------------------------------------- bounds
\* number of times the clock advances between two steps in one behaviour
MaxAdvances == 3
\* number of encoder edges (runs of doEncoder) in one behaviour
MaxTicks == 2
\* the amounts by which the clock advances between two steps
TimeSteps == {300, 1000}
\* the integer found in the EEPROM at power-up
StoredValues == {-1, 1, 1794}
\* the same two, where only the encoder is exercised
ShortSteps == {59, 60}
RotateStored == {5, 1795}
\* the same, where only the configuration store is exercised
StoreInputs == (-2 .. 1802) \cup {2000}

VARIABLES
  encoderPos,          \* volatile int encoderPos
  lastReportedPos,     \* int lastReportedPos
  seconds,             \* int seconds
  minutes,             \* int minutes
  initialTotalSeconds, \* int initialTotalSeconds
  countdownStarted,    \* bool countdownStarted
  lastCountdownUpdate, \* unsigned long lastCountdownUpdate
  lastButtonPress,     \* unsigned long lastButtonPress
  lastEncoderChange,   \* unsigned long lastEncoderChange
  relay,               \* level of RELAY_PIN
  eeprom,              \* the int stored at EEPROM_ADDRESS
  eepromWritten,       \* the EEPROM cell holds a value written by EEPROM.put
  applied,             \* sum of the position deltas applied to the time
  display,             \* what the OLED shows
  buzzer,              \* the last tone sequence played
  pc,                  \* where the main program is: "loop", "finished", "aborted"
  now,                 \* millis()
  sw,                  \* level of ENCODER_SW (LOW = pressed)
  displayOk,           \* what display.begin() returned in setup()
  counted,             \* net edges counted by doEncoder while Configuring
  nTicks,              \* runs of doEncoder so far
  nAdvances,           \* advances of the clock so far
  heldAccepts          \* polls that returned true since the button last went low

prog == <<encoderPos, lastReportedPos, seconds, minutes, initialTotalSeconds,
          countdownStarted, lastCountdownUpdate, lastButtonPress,
          lastEncoderChange, relay, eeprom, eepromWritten, applied, display,
          buzzer, pc, now>>

vars == <<encoderPos, lastReportedPos, seconds, minutes, initialTotalSeconds,
          countdownStarted, lastCountdownUpdate, lastButtonPress,
          lastEncoderChange, relay, eeprom, eepromWritten, applied, display,
          buzzer, pc, now, sw, displayOk, counted, nTicks, nAdvances,
          heldAccepts>>

\* the program's variables as one record, threaded through the statements
Cur == [encoderPos |-> encoderPos, lastReportedPos |-> lastReportedPos,
        seconds |-> seconds, minutes |-> minutes,
        initialTotalSeconds |-> initialTotalSeconds,
        countdownStarted |-> countdownStarted,
        lastCountdownUpdate |-> lastCountdownUpdate,
        lastButtonPress |-> lastButtonPress,
        lastEncoderChange |-> lastEncoderChange,
        relay |-> relay, eeprom |-> eeprom, eepromWritten |-> eepromWritten,
        applied |-> applied, display |-> display,
        buzzer |-> buzzer, pc |-> pc, now |-> now]

Commit(s) ==
  /\ encoderPos' = s.encoderPos
  /\ lastReportedPos' = s.lastReportedPos
  /\ seconds' = s.seconds
  /\ minutes' = s.minutes
  /\ initialTotalSeconds' = s.initialTotalSeconds
  /\ countdownStarted' = s.countdownStarted
  /\ lastCountdownUpdate' = s.lastCountdownUpdate
  /\ lastButtonPress' = s.lastButtonPress
  /\ lastEncoderChange' = s.lastEncoderChange
  /\ relay' = s.relay
  /\ eeprom' = s.eeprom
  /\ eepromWritten' = s.eepromWritten
  /\ applied' = s.applied
  /\ display' = s.display
  /\ buzzer' = s.buzzer
  /\ pc' = s.pc
  /\ now' = s.now

\* ------------------------------------------------------- pure helpers
\* constrain with the upper limit forgotten
constrain_noUpper(amt, low, high) ==
  IF amt < low THEN low ELSE amt

\* Arduino constrain(amt, low, high)
constrain(amt, low, high) ==
  IF amt < low THEN low ELSE IF amt > high THEN high ELSE amt

\* Arduino map(x, in_min, in_max, out_min, out_max); -1 stands for the
\* undefined result of a division by zero
map(x, in_min, in_max, out_min, out_max) ==
  IF in_max = in_min THEN -1
  ELSE ((x - in_min) * (out_max - out_min)) \div (in_max - in_min) + out_min

\* delay(ms): the clock moves on while the program waits
delay(s, ms) == [s EXCEPT !.now = s.now + ms]

\* ----------------------------------------------------- display and tones
updateDisplay(s) ==
  LET totalSeconds == s.minutes * 60 + s.seconds
      progress == IF s.countdownStarted
                  THEN map(totalSeconds, 0, s.initialTotalSeconds, 0, SCREEN_WIDTH)
                  ELSE map(totalSeconds, 0, MAX_TIME, 0, SCREEN_WIDTH)
  IN [s EXCEPT !.display =
        [status |-> IF s.countdownStarted THEN "Contagem" ELSE "Configurar",
         minutes |-> s.minutes, seconds |-> s.seconds, progress |-> progress]]

showSplashScreen(s) ==
  delay([s EXCEPT !.display =
           [status |-> "Camara UV", minutes |-> 0, seconds |-> 0, progress |-> 0]],
        2000)

playStartupSound(s) ==
  delay(delay(delay(delay([s EXCEPT !.buzzer = "startup"], 150), 150), 150), 350)

playAlarm(s) ==
  delay([s EXCEPT !.buzzer = "alarm"], 3 * (600 + 600))

playCancel(s) ==
  delay([s EXCEPT !.buzzer = "cancel"], 600 + 600)

\* -------------------------------------------------------------- EEPROM
saveLastConfiguration(s) ==
  [s EXCEPT !.eeprom = s.minutes * 60 + s.seconds, !.eepromWritten = TRUE]

\* loadLastConfiguration with < in place of <= at the upper limit
loadLastConfiguration_ltMax(s) ==
  LET totalSeconds == s.eeprom
  IN IF totalSeconds >= MIN_TIME /\ totalSeconds < MAX_TIME
     THEN [s EXCEPT !.minutes = totalSeconds \div 60, !.seconds = totalSeconds % 60]
     ELSE [s EXCEPT !.minutes = 5, !.seconds = 0]

loadLastConfiguration(s) ==
  LET totalSeconds == s.eeprom
  IN IF totalSeconds >= MIN_TIME /\ totalSeconds <= MAX_TIME
     THEN [s EXCEPT !.minutes = totalSeconds \div 60, !.seconds = totalSeconds % 60]
     ELSE [s EXCEPT !.minutes = 5, !.seconds = 0]

\* -------------------------------------------------------------- button
\* isButtonPressed with >= in place of > in the debounce test
isButtonPressed_ge(s, level) ==
  IF level = LOW /\ s.now - s.lastButtonPress >= DEBOUNCE_DELAY
  THEN [ret |-> TRUE, st |-> [s EXCEPT !.lastButtonPress = s.now]]
  ELSE [ret |-> FALSE, st |-> s]

\* isButtonPressed(): the value returned and the program state it leaves
isButtonPressed(s, level) ==
  IF level = LOW /\ s.now - s.lastButtonPress > DEBOUNCE_DELAY
  THEN [ret |-> TRUE, st |-> [s EXCEPT !.lastButtonPress = s.now]]
  ELSE [ret |-> FALSE, st |-> s]

\* ------------------------------------------------------ terminal screens
\* resetTimer that forgets to clear countdownStarted
resetTimer_stillStarted(s) ==
  updateDisplay([s EXCEPT !.encoderPos = s.lastReportedPos])

\* resetTimer that leaves encoderPos as it is
resetTimer_noResync(s) ==
  updateDisplay([s EXCEPT !.countdownStarted = FALSE])

resetTimer(s) ==
  updateDisplay([s EXCEPT !.countdownStarted = FALSE,
                          !.encoderPos = s.lastReportedPos])

\* countdownFinished() up to its wait for the button
countdownFinished(s) ==
  playAlarm([s EXCEPT !.relay = LOW,
                      !.display = [status |-> "Tempo Acabou!", minutes |-> s.minutes,
                                   seconds |-> s.seconds, progress |-> 0],
                      !.pc = "finished"])

\* abortCountdown that leaves the relay as it is
abortCountdown_relayLeft(s) ==
  playCancel([s EXCEPT !.display = [status |-> "Cancelado!", minutes |-> s.minutes,
                                    seconds |-> s.seconds, progress |-> 0],
                       !.pc = "aborted"])

\* abortCountdown() up to its wait for the button
abortCountdown(s) ==
  playCancel([s EXCEPT !.relay = LOW,
                       !.display = [status |-> "Cancelado!", minutes |-> s.minutes,
                                    seconds |-> s.seconds, progress |-> 0],
                       !.pc = "aborted"])

\* ------------------------------------------------------------ loop()
\* the adjustment with <= in place of < in the test of the rotation speed
adjustTime_fastLe(s) ==
  LET currentTime == s.now
      increment == IF currentTime - s.lastEncoderChange <= FAST_THRESHOLD
                   THEN 10 ELSE 1
      totalSeconds == constrain(s.minutes * 60 + s.seconds
                                  + (s.encoderPos - s.lastReportedPos) * increment,
                                MIN_TIME, MAX_TIME)
  IN saveLastConfiguration(updateDisplay(
       [s EXCEPT !.lastEncoderChange = currentTime,
                 !.minutes = totalSeconds \div 60,
                 !.seconds = totalSeconds % 60,
                 !.applied = s.applied + (s.encoderPos - s.lastReportedPos)]))

\* the adjustment without the call of saveLastConfiguration
adjustTime_noSave(s) ==
  LET currentTime == s.now
      increment == IF currentTime - s.lastEncoderChange < FAST_THRESHOLD
                   THEN 10 ELSE 1
      totalSeconds == constrain(s.minutes * 60 + s.seconds
                                  + (s.encoderPos - s.lastReportedPos) * increment,
                                MIN_TIME, MAX_TIME)
  IN updateDisplay(
       [s EXCEPT !.lastEncoderChange = currentTime,
                 !.minutes = totalSeconds \div 60,
                 !.seconds = totalSeconds % 60,
                 !.applied = s.applied + (s.encoderPos - s.lastReportedPos)])

\* the encoder position changed: adjust the time while not counting
adjustTime(s) ==
  LET currentTime == s.now
      increment == IF currentTime - s.lastEncoderChange < FAST_THRESHOLD
                   THEN 10 ELSE 1
      totalSeconds == constrain(s.minutes * 60 + s.seconds
                                  + (s.encoderPos - s.lastReportedPos) * increment,
                                MIN_TIME, MAX_TIME)
  IN saveLastConfiguration(updateDisplay(
       [s EXCEPT !.lastEncoderChange = currentTime,
                 !.minutes = totalSeconds \div 60,
                 !.seconds = totalSeconds % 60,
                 !.applied = s.applied + (s.encoderPos - s.lastReportedPos)]))

\* the encoder block without the test of countdownStarted
encoderBlock_alwaysAdjust(s) ==
  IF s.lastReportedPos # s.encoderPos
  THEN LET a == adjustTime(s)
       IN [a EXCEPT !.lastReportedPos = a.encoderPos]
  ELSE s

\* lines 165-186 of loop()
encoderBlock(s) ==
  IF s.lastReportedPos # s.encoderPos
  THEN LET a == IF ~s.countdownStarted THEN adjustTime(s) ELSE s
       IN [a EXCEPT !.lastReportedPos = a.encoderPos]
  ELSE s

\* the start with initialTotalSeconds left as it was
startCountdown_noSnapshot(s) ==
  [s EXCEPT !.countdownStarted = TRUE,
            !.relay = HIGH,
            !.lastCountdownUpdate = s.now]

\* the start refreshing the display before initialTotalSeconds is set
startCountdown_displayEarly(s) ==
  LET d == updateDisplay([s EXCEPT !.countdownStarted = TRUE])
  IN [d EXCEPT !.initialTotalSeconds = s.minutes * 60 + s.seconds,
               !.relay = HIGH,
               !.lastCountdownUpdate = s.now]

\* lines 191-195 of loop()
startCountdown(s) ==
  [s EXCEPT !.countdownStarted = TRUE,
            !.initialTotalSeconds = s.minutes * 60 + s.seconds,
            !.relay = HIGH,
            !.lastCountdownUpdate = s.now]

\* lines 189-200 of loop()
buttonBlock(s, level) ==
  LET b == isButtonPressed(s, level)
  IN IF b.ret
     THEN IF ~b.st.countdownStarted THEN startCountdown(b.st)
                                    ELSE abortCountdown(b.st)
     ELSE b.st

\* the decrement that forgets to set seconds to 59 when it borrows
decrementTime_noBorrow(s) ==
  IF s.seconds = 0
  THEN [s EXCEPT !.minutes = s.minutes - 1]
  ELSE [s EXCEPT !.seconds = s.seconds - 1]

\* lines 207-212 of loop()
decrementTime(s) ==
  IF s.seconds = 0
  THEN [s EXCEPT !.minutes = s.minutes - 1, !.seconds = 59]
  ELSE [s EXCEPT !.seconds = s.seconds - 1]

\* a countdown block that does nothing once the time is 0:00
countdownBlock_noFinish(s) ==
  IF s.countdownStarted /\ s.now - s.lastCountdownUpdate >= TICK_PERIOD
  THEN LET t == [s EXCEPT !.lastCountdownUpdate = s.now]
       IN IF t.seconds > 0 \/ t.minutes > 0
          THEN updateDisplay(decrementTime(t))
          ELSE t
  ELSE s

\* the countdown block with seconds >= 0 in place of seconds > 0
countdownBlock_noFloor(s) ==
  IF s.countdownStarted /\ s.now - s.lastCountdownUpdate >= TICK_PERIOD
  THEN LET t == [s EXCEPT !.lastCountdownUpdate = s.now]
       IN IF t.seconds >= 0 \/ t.minutes > 0
          THEN updateDisplay(decrementTime(t))
          ELSE countdownFinished(t)
  ELSE s

\* lines 203-218 of loop()
countdownBlock(s) ==
  IF s.countdownStarted /\ s.now - s.lastCountdownUpdate >= TICK_PERIOD
  THEN LET t == [s EXCEPT !.lastCountdownUpdate = s.now]
       IN IF t.seconds > 0 \/ t.minutes > 0
          THEN updateDisplay(decrementTime(t))
          ELSE countdownFinished(t)
  ELSE s

\* one iteration of loop(); an abort leaves the program in abortCountdown's
\* wait, and what follows the wait finds countdownStarted false
loopBody(s, level) ==
  LET e == encoderBlock(s)
      b == buttonBlock(e, level)
  IN IF b.pc = "loop" THEN countdownBlock(b) ELSE b

\* ------------------------------------------------------------- state
TimerState ==
  IF pc = "halt" THEN "Halted"
  ELSE IF pc = "finished" THEN "Finished"
  ELSE IF pc = "aborted" THEN "Aborted"
  ELSE IF countdownStarted THEN "Counting"
  ELSE "Configuring"

Total == minutes * 60 + seconds

\* the globals as their initializers leave them, the EEPROM holding stored
PowerUp(stored) ==
  [encoderPos |-> 0, lastReportedPos |-> 0, seconds |-> 0, minutes |-> 0,
   initialTotalSeconds |-> 0, countdownStarted |-> FALSE,
   lastCountdownUpdate |-> 0, lastButtonPress |-> 0, lastEncoderChange |-> 0,
   relay |-> LOW, eeprom |-> stored, eepromWritten |-> FALSE, applied |-> 0,
   display |-> [status |-> "", minutes |-> 0, seconds |-> 0, progress |-> 0],
   buzzer |-> "none", pc |-> "loop", now |-> 0]

\* setup() that goes on when display.begin() fails
setup_noHalt(stored, began) ==
  playStartupSound(showSplashScreen(loadLastConfiguration(PowerUp(stored))))

\* setup(); began is what display.begin() returns: when it fails the program
\* stays in for(;;) at line 147
setup(stored, began) ==
  IF ~began
  THEN [PowerUp(stored) EXCEPT !.pc = "halt"]
  ELSE playStartupSound(showSplashScreen(loadLastConfiguration(PowerUp(stored))))

\* the program state s as the state of the system
Starts(s) ==
  /\ encoderPos = s.encoderPos
  /\ lastReportedPos = s.lastReportedPos
  /\ seconds = s.seconds
  /\ minutes = s.minutes
  /\ initialTotalSeconds = s.initialTotalSeconds
  /\ countdownStarted = s.countdownStarted
  /\ lastCountdownUpdate = s.lastCountdownUpdate
  /\ lastButtonPress = s.lastButtonPress
  /\ lastEncoderChange = s.lastEncoderChange
  /\ relay = s.relay
  /\ eeprom = s.eeprom
  /\ eepromWritten = s.eepromWritten
  /\ applied = s.applied
  /\ display = s.display
  /\ buzzer = s.buzzer
  /\ pc = s.pc
  /\ now = s.now

Init ==
  /\ \E stored \in StoredValues, began \in BOOLEAN :
       /\ Starts(setup(stored, began))
       /\ displayOk = began
  /\ sw = HIGH
  /\ counted = 0
  /\ nTicks = 0
  /\ nAdvances = 0
  /\ heldAccepts = 0

\* ------------------------------------------------------------ actions
\* polls that returned true while the button is held, counted up to 2; a poll
\* returns true exactly when it moves lastButtonPress
CountAccept(before, after) ==
  IF after.lastButtonPress # before.lastButtonPress
  THEN IF heldAccepts < 2 THEN heldAccepts + 1 ELSE 2
  ELSE heldAccepts

\* one iteration of loop()
Loop ==
  /\ pc = "loop"
  /\ LET s == loopBody(Cur, sw)
     IN /\ Commit(s)
        /\ heldAccepts' = CountAccept(Cur, s)
  /\ UNCHANGED <<sw, displayOk, counted, nTicks, nAdvances>>

\* one poll of the wait in countdownFinished()/abortCountdown(), and
\* resetTimer() once the poll returns true
AckWait ==
  /\ pc \in {"finished", "aborted"}
  /\ LET b == isButtonPressed(Cur, sw)
     IN /\ IF b.ret THEN Commit([resetTimer(b.st) EXCEPT !.pc = "loop"])
                    ELSE Commit(b.st)
        /\ heldAccepts' = CountAccept(Cur, b.st)
  /\ UNCHANGED <<sw, displayOk, counted, nTicks, nAdvances>>

\* the interrupt handler: CLK changed; up is digitalRead(CLK) = digitalRead(DT)
doEncoder ==
  /\ nTicks < MaxTicks
  /\ \E up \in BOOLEAN :
       LET step == IF up THEN 1 ELSE -1
       IN /\ encoderPos' = encoderPos + step
          /\ counted' = IF TimerState = "Configuring" THEN counted + step
                                                      ELSE counted
  /\ nTicks' = nTicks + 1
  /\ UNCHANGED <<lastReportedPos, seconds, minutes, initialTotalSeconds,
                 countdownStarted, lastCountdownUpdate, lastButtonPress,
                 lastEncoderChange, relay, eeprom, eepromWritten, applied,
                 display, buzzer, pc, now, sw, displayOk, nAdvances,
                 heldAccepts>>

\* the user presses the button
PressButton ==
  /\ sw = HIGH
  /\ sw' = LOW
  /\ heldAccepts' = 0
  /\ UNCHANGED <<prog, displayOk, counted, nTicks, nAdvances>>

\* the user releases the button
ReleaseButton ==
  /\ sw = LOW
  /\ sw' = HIGH
  /\ heldAccepts' = 0
  /\ UNCHANGED <<prog, displayOk, counted, nTicks, nAdvances>>

\* time passes
Advance ==
  /\ nAdvances < MaxAdvances
  /\ \E d \in TimeSteps : now' = now + d
  /\ nAdvances' = nAdvances + 1
  /\ UNCHANGED <<encoderPos, lastReportedPos, seconds, minutes,
                 initialTotalSeconds, countdownStarted, lastCountdownUpdate,
                 lastButtonPress, lastEncoderChange, relay, eeprom,
                 eepromWritten, applied, display, buzzer, pc, sw, displayOk,
                 counted, nTicks, heldAccepts>>

\* power is cycled: setup() runs again on what the EEPROM holds
Reboot ==
  /\ displayOk
  /\ Commit([setup(eeprom, TRUE) EXCEPT !.eepromWritten = eepromWritten])
  /\ counted' = 0
  /\ heldAccepts' = 0
  /\ UNCHANGED <<sw, displayOk, nTicks, nAdvances>>

Next == Loop \/ AckWait \/ doEncoder \/ PressButton \/ ReleaseButton \/ Advance

Spec == Init /\ [][Next]_vars

\* the encoder alone: the knob turned at intervals around FAST_THRESHOLD,
\* the button never pressed
AdvanceShort ==
  /\ nAdvances < MaxAdvances
  /\ \E d \in ShortSteps : now' = now + d
  /\ nAdvances' = nAdvances + 1
  /\ UNCHANGED <<encoderPos, lastReportedPos, seconds, minutes,
                 initialTotalSeconds, countdownStarted, lastCountdownUpdate,
                 lastButtonPress, lastEncoderChange, relay, eeprom,
                 eepromWritten, applied, display, buzzer, pc, sw, displayOk,
                 counted, nTicks, heldAccepts>>

InitRotate ==
  /\ \E stored \in RotateStored : Starts(setup(stored, TRUE))
  /\ displayOk = TRUE
  /\ sw = HIGH
  /\ counted = 0
  /\ nTicks = 0
  /\ nAdvances = 0
  /\ heldAccepts = 0

NextRotate == doEncoder \/ Loop \/ AdvanceShort

SpecRotate == InitRotate /\ [][NextRotate]_vars

\* the configuration store alone: any stored integer at power-up, the encoder
\* turned, power cycled, the button never pressed
InitStore ==
  /\ \E stored \in StoreInputs : Starts(setup(stored, TRUE))
  /\ displayOk = TRUE
  /\ sw = HIGH
  /\ counted = 0
  /\ nTicks = 0
  /\ nAdvances = 0
  /\ heldAccepts = 0

NextStore == doEncoder \/ Loop \/ Reboot

SpecStore == InitStore /\ [][NextStore]_vars

\* ============================================================ claims

\* C1: in every reachable state the relay is energized exactly when the
\* timer is Counting; it is off in Configuring, Finished and Aborted.
C1_RelayIffCounting ==
  (relay = HIGH) <=> (TimerState = "Counting")

\* a second countdown is running after a first one finished
C1_Witness ==
  TimerState = "Counting" /\ relay = HIGH /\ buzzer = "alarm"

\* C2: the tick that takes RemainingDuration from 1 to 0 is the tick that
\* enters Finished, switches the relay off and sounds the alarm.
C2_FinishOnTickToZero ==
  [][(TimerState = "Counting" /\ Total = 1
        /\ lastCountdownUpdate' # lastCountdownUpdate)
     => (TimerState' = "Finished" /\ relay' = LOW /\ buzzer' = "alarm")]_vars

\* C3: whenever the timer is Configuring, the configured Duration lies in
\* [MIN_TIME, MAX_TIME].
C3_ConfiguringDurationInRange ==
  TimerState = "Configuring" => Total \in MIN_TIME..MAX_TIME

\* C4: every adjustment made while Configuring leaves a Duration in
\* [MIN_TIME, MAX_TIME]: the sum of the old Duration and delta * increment,
\* replaced by MIN_TIME when it is below it and by MAX_TIME when above.
C4_AdjustmentClamped ==
  [][(TimerState = "Configuring" /\ lastReportedPos' # lastReportedPos)
     => LET inc == IF now - lastEncoderChange < FAST_THRESHOLD THEN 10 ELSE 1
            raw == Total + (encoderPos - lastReportedPos) * inc
        IN /\ Total' \in MIN_TIME..MAX_TIME
           /\ raw < MIN_TIME => Total' = MIN_TIME
           /\ raw > MAX_TIME => Total' = MAX_TIME
           /\ raw \in MIN_TIME..MAX_TIME => Total' = raw]_vars

\* 29:54, a slow +1 and then a fast +1: 29:55 + 10 s is held at 30:00
C4_Witness ==
  /\ TimerState = "Configuring"
  /\ Total = MAX_TIME /\ eeprom = MAX_TIME
  /\ encoderPos = 2 /\ lastReportedPos = 2

\* C5: acknowledging an aborted countdown returns to Configuring with the
\* Duration the countdown was started with, which is not 0.
C5_AbortRestoresDuration ==
  [][(TimerState = "Aborted" /\ TimerState' = "Configuring")
     => (Total' = initialTotalSeconds /\ Total' # 0)]_vars

\* C6: while Counting the remaining time never increases and never goes
\* below 0, and Finished is entered only from Counting with 0 remaining.
C6_CountdownMonotone ==
  [][/\ TimerState = "Counting" => (Total' <= Total /\ Total' >= 0)
     /\ (TimerState' = "Finished" /\ TimerState # "Finished")
          => (TimerState = "Counting" /\ Total = 0)]_vars

\* a countdown of at least one second has run to its end
C6_Witness ==
  TimerState = "Finished" /\ initialTotalSeconds >= 1 /\ Total = 0

\* C7: while the button stays low, at most one poll returns true.
C7_OncePerPress ==
  heldAccepts <= 1

\* C8: a poll moves lastButtonPress only when the button reads low and more
\* than DEBOUNCE_DELAY has passed since the last accepted press, and then to
\* the time of the poll; a poll that does not accept leaves it unchanged;
\* the timer leaves Configuring, Aborted and Finished only on such a poll.
C8_DebouncedAccept ==
  [][/\ lastButtonPress' # lastButtonPress
          => /\ sw = LOW
             /\ now - lastButtonPress > DEBOUNCE_DELAY
             /\ lastButtonPress' = now
             /\ lastButtonPress' - lastButtonPress > DEBOUNCE_DELAY
     /\ (sw = HIGH \/ now - lastButtonPress <= DEBOUNCE_DELAY)
          => lastButtonPress' = lastButtonPress
     /\ (TimerState' # TimerState /\ TimerState' # "Finished")
          => lastButtonPress' = now /\ lastButtonPress' # lastButtonPress]_vars

\* three presses were accepted: start, abort, acknowledge
C8_Witness ==
  TimerState = "Configuring" /\ buzzer = "cancel" /\ lastButtonPress > 0

\* C9: outside Configuring the time value changes only by the one-second
\* tick and the stored configuration never changes, whatever the encoder
\* does; on the way back to Configuring the position is set to the
\* last-reported one, so no change made meanwhile is applied later.
C9_EncoderIgnoredOutsideConfiguring ==
  [][TimerState # "Configuring"
     => /\ eeprom' = eeprom
        /\ \/ Total' = Total
           \/ /\ TimerState = "Counting"
              /\ Total' = Total - 1
              /\ now - lastCountdownUpdate >= TICK_PERIOD
        /\ TimerState' = "Configuring" => encoderPos' = lastReportedPos']_vars

\* a position change was observed while Counting and nothing was adjusted
C9_Witness ==
  /\ TimerState = "Counting"
  /\ lastReportedPos # 0 /\ lastEncoderChange = 0
  /\ Total = initialTotalSeconds /\ eeprom \in StoredValues

\* C10: the press that leaves Finished or Aborted leads to Configuring with
\* the relay off, and Counting is entered from Configuring only by a press
\* accepted more than DEBOUNCE_DELAY after the previous accepted press.
C10_AckDoesNotRestart ==
  [][/\ (TimerState \in {"Finished", "Aborted"} /\ TimerState' # TimerState)
          => /\ TimerState' = "Configuring"
             /\ relay' = LOW
             /\ lastButtonPress' = now
     /\ (TimerState = "Configuring" /\ TimerState' = "Counting")
          => lastButtonPress' - lastButtonPress > DEBOUNCE_DELAY]_vars

\* a countdown started again after an acknowledgment
C10_Witness ==
  /\ TimerState = "Counting"
  /\ buzzer \in {"alarm", "cancel"}
  /\ lastCountdownUpdate = lastButtonPress

\* C11: a power cycle loads what the EEPROM holds: a value in
\* [MIN_TIME, MAX_TIME] comes back as value / 60 minutes and value % 60
\* seconds, so a configuration that was saved comes back with the minutes
\* and seconds it was saved from; any other value gives 5:00.
C11_StoreRoundTrip ==
  [][Reboot
     => /\ eeprom' = eeprom
        /\ IF eeprom \in MIN_TIME..MAX_TIME
           THEN /\ Total' = eeprom
                /\ minutes' = eeprom \div 60
                /\ seconds' = eeprom % 60
           ELSE minutes' = 5 /\ seconds' = 0
        /\ eepromWritten => (minutes' = minutes /\ seconds' = seconds)]_vars

\* 30:00 was saved and loaded again by the next setup()
C11_Witness ==
  /\ eepromWritten /\ eeprom = MAX_TIME
  /\ display.status = "Camara UV"
  /\ minutes = 30 /\ seconds = 0

\* C12: the stored configuration is written by every adjustment made while
\* Configuring, to the new Duration, which lies in [MIN_TIME, MAX_TIME]; no
\* other step (start, tick, finish, abort, acknowledgment) changes it.
C12_StoreWrittenOnlyOnAdjust ==
  [][IF TimerState = "Configuring" /\ lastReportedPos' # lastReportedPos
     THEN /\ eeprom' = Total'
          /\ eeprom' \in MIN_TIME..MAX_TIME
          /\ eepromWritten'
     ELSE /\ eeprom' = eeprom
          /\ eepromWritten' = eepromWritten]_vars

\* an adjusted time was saved and then counted down to the end
C12_Witness ==
  /\ TimerState = "Finished"
  /\ eepromWritten /\ eeprom \in MIN_TIME..MAX_TIME
  /\ Total = 0

\* C13: an adjustment made while Configuring adds delta * 10 seconds when
\* less than FAST_THRESHOLD has passed since the previous adjustment and
\* delta * 1 second otherwise, for either sign of delta, before clamping.
C13_SpeedSelectsIncrement ==
  [][IF TimerState = "Configuring" /\ lastReportedPos' # lastReportedPos
     THEN LET delta == encoderPos - lastReportedPos
              raw == IF now - lastEncoderChange < FAST_THRESHOLD
                     THEN Total + delta * 10
                     ELSE Total + delta
          IN /\ Total' = (IF raw < MIN_TIME THEN MIN_TIME
                          ELSE IF raw > MAX_TIME THEN MAX_TIME ELSE raw)
             /\ lastEncoderChange' = now
     ELSE lastEncoderChange' = lastEncoderChange]_vars

\* 0:05, a slow +1 (0:06) and a fast +1 after it: 0:16
C13_Witness ==
  /\ Total = 16 /\ eeprom = 16
  /\ encoderPos = 2 /\ lastReportedPos = 2
  /\ now - lastEncoderChange < FAST_THRESHOLD
  /\ nAdvances > 0

\* C14: when display.begin() fails the program halts in setup(): the timer
\* state never changes, the relay stays off, no configuration is loaded,
\* the EEPROM is never written and nothing is shown or played, whatever the
\* button, the encoder and the clock do.
C14_DisplayFailureHalts ==
  /\ [](~displayOk
        => /\ TimerState = "Halted"
           /\ relay = LOW
           /\ ~countdownStarted
           /\ minutes = 0 /\ seconds = 0
           /\ ~eepromWritten
           /\ display.status = "" /\ buzzer = "none")
  /\ [][~displayOk
        => UNCHANGED <<pc, relay, eeprom, minutes, seconds, countdownStarted,
                       lastReportedPos, lastButtonPress, display, buzzer>>]_vars

\* halted, with the button held, the knob turned and time gone by
C14_Witness ==
  /\ ~displayOk
  /\ sw = LOW /\ encoderPos # 0 /\ now >= TICK_PERIOD

\* loop() split at its three reads of encoderPos, so that doEncoder can run
\* between them: the test of line 165
loopTest(s) ==
  [s EXCEPT !.pc = IF s.lastReportedPos # s.encoderPos THEN "adjust" ELSE "rest"]

\* lines 166-184: the adjustment, with its read of encoderPos at line 176
loopAdjust(s) ==
  [(IF ~s.countdownStarted THEN adjustTime(s) ELSE s) EXCEPT !.pc = "sync"]

\* line 185, the third read
loopSync(s) ==
  [s EXCEPT !.lastReportedPos = s.encoderPos, !.pc = "rest"]

\* lines 189-218: the button block and the countdown block
loopRest(s, level) ==
  LET b == buttonBlock([s EXCEPT !.pc = "loop"], level)
  IN IF b.pc = "loop" THEN countdownBlock(b) ELSE b

LoopTest ==
  /\ pc = "loop"
  /\ Commit(loopTest(Cur))
  /\ UNCHANGED <<sw, displayOk, counted, nTicks, nAdvances, heldAccepts>>

LoopAdjust ==
  /\ pc = "adjust"
  /\ Commit(loopAdjust(Cur))
  /\ UNCHANGED <<sw, displayOk, counted, nTicks, nAdvances, heldAccepts>>

LoopSync ==
  /\ pc = "sync"
  /\ Commit(loopSync(Cur))
  /\ UNCHANGED <<sw, displayOk, counted, nTicks, nAdvances, heldAccepts>>

LoopRest ==
  /\ pc = "rest"
  /\ LET s == loopRest(Cur, sw)
     IN /\ Commit(s)
        /\ heldAccepts' = CountAccept(Cur, s)
  /\ UNCHANGED <<sw, displayOk, counted, nTicks, nAdvances>>

\* the knob turned with the button released, doEncoder free to run between
\* any two steps of loop()
NextISR ==
  doEncoder \/ LoopTest \/ LoopAdjust \/ LoopSync \/ LoopRest \/ AdvanceShort

SpecISR == InitRotate /\ [][NextISR]_vars

\* C15: whenever loop() is idle again in Configuring, with lastReportedPos
\* caught up with encoderPos, the deltas applied to the Duration add up to
\* the edges doEncoder counted while Configuring.
C15_NoTickLost ==
  (pc = "loop" /\ TimerState = "Configuring" /\ lastReportedPos = encoderPos)
    => applied = counted

\* The program reads millis() only in the differences with its three
\* timestamps (lines 170, 204, 415), and compares them with FAST_THRESHOLD,
\* DEBOUNCE_DELAY and TICK_PERIOD.  For a clock that never stops the state is
\* kept relative to the current instant: now is 0 and each timestamp is minus
\* its age, an age beyond AgeCap being kept as AgeCap.
AgeCap == TICK_PERIOD

rebase(s) ==
  LET age(t) == IF s.now - t > AgeCap THEN AgeCap ELSE s.now - t
  IN [s EXCEPT !.now = 0,
               !.lastCountdownUpdate = 0 - age(s.lastCountdownUpdate),
               !.lastButtonPress = 0 - age(s.lastButtonPress),
               !.lastEncoderChange = 0 - age(s.lastEncoderChange)]

LiveStored == {1, 3, 8}

LiveInit ==
  /\ \E stored \in LiveStored : Starts(rebase(setup(stored, TRUE)))
  /\ displayOk = TRUE
  /\ sw = HIGH
  /\ counted = 0
  /\ nTicks = 0
  /\ nAdvances = 0
  /\ heldAccepts = 0

\* one iteration of loop()
LiveLoop ==
  /\ pc = "loop"
  /\ \E s \in {loopBody(Cur, sw)} :
       /\ Commit(rebase(s))
       /\ heldAccepts' = CountAccept(Cur, s)
  /\ UNCHANGED <<sw, displayOk, counted, nTicks, nAdvances>>

\* one poll of the acknowledgment wait (lines 296-298, 324-326)
LiveAckWait ==
  /\ pc \in {"finished", "aborted"}
  /\ \E b \in {isButtonPressed(Cur, sw)} :
       /\ IF b.ret THEN Commit(rebase([resetTimer(b.st) EXCEPT !.pc = "loop"]))
                   ELSE Commit(rebase(b.st))
       /\ heldAccepts' = CountAccept(Cur, b.st)
  /\ UNCHANGED <<sw, displayOk, counted, nTicks, nAdvances>>

\* millis() moves on, without end
Elapse ==
  /\ \E d \in TimeSteps : Commit(rebase([Cur EXCEPT !.now = @ + d]))
  /\ UNCHANGED <<sw, displayOk, counted, nTicks, nAdvances, heldAccepts>>

\* the button and the clock; the knob is left alone
LiveNext ==
  LiveLoop \/ LiveAckWait \/ PressButton \/ ReleaseButton \/ Elapse

\* loop() is called again and again by the Arduino core, and the timer
\* behind millis() never stops
LiveSpec ==
  LiveInit /\ [][LiveNext]_vars /\ WF_vars(LiveLoop) /\ WF_vars(Elapse)

\* C19: a countdown ends: from Counting the program reaches Finished with the
\* relay off, unless an accepted press aborts it first; and Finished or
\* Aborted is left only by a poll that accepts a press of the button, for
\* Configuring, however much time passes.
C19_CountdownEnds ==
  /\ (TimerState = "Counting")
       ~> (\/ TimerState = "Finished" /\ relay = LOW
           \/ TimerState = "Aborted")
  /\ [][(TimerState \in {"Finished", "Aborted"} /\ TimerState' # TimerState)
        => /\ TimerState' = "Configuring"
           /\ sw = LOW
           /\ lastButtonPress' = now']_vars

\* a countdown of three seconds ran out with the button never held
C19_Witness ==
  /\ TimerState = "Finished" /\ relay = LOW
  /\ initialTotalSeconds = 3 /\ sw = HIGH /\ heldAccepts = 0

\* C16: the step from Configuring to Counting leaves the remaining time
\* equal to the Duration and initialTotalSeconds equal to it too, and in
\* every Counting state 0 <= remaining <= initialTotalSeconds.
C16_StartSnapshotsDuration ==
  /\ [](TimerState = "Counting" => (0 <= Total /\ Total <= initialTotalSeconds))
  /\ [][(TimerState = "Configuring" /\ TimerState' = "Counting")
        => /\ initialTotalSeconds' = Total'
           /\ lastReportedPos = encoderPos => Total' = Total
           /\ lastButtonPress' = now]_vars

\* part of a countdown has run
C16_Witness ==
  TimerState = "Counting" /\ 0 < Total /\ Total < initialTotalSeconds

\* C17: while Counting, an iteration of loop() that does not abort and finds
\* at least TICK_PERIOD elapsed sets lastCountdownUpdate to now and takes
\* exactly one second off a non-zero remaining time, borrowing from the
\* minutes when seconds is 0; with less elapsed it leaves both unchanged.
C17_OneSecondPerTick ==
  [][(Loop /\ TimerState = "Counting" /\ TimerState' # "Aborted")
     => IF now - lastCountdownUpdate >= TICK_PERIOD
        THEN /\ lastCountdownUpdate' = now
             /\ Total > 0
                  => /\ TimerState' = "Counting"
                     /\ Total' = Total - 1
                     /\ seconds = 0 => (minutes' = minutes - 1 /\ seconds' = 59)
                     /\ seconds > 0 => (minutes' = minutes /\ seconds' = seconds - 1)
        ELSE /\ lastCountdownUpdate' = lastCountdownUpdate
             /\ minutes' = minutes /\ seconds' = seconds]_vars

\* 5:00 became 4:59 in an iteration that ran 2000 ms or more after the start
C17_Witness ==
  /\ TimerState = "Counting"
  /\ initialTotalSeconds = 300 /\ minutes = 4 /\ seconds = 59
  /\ lastCountdownUpdate - lastButtonPress >= 2 * TICK_PERIOD

\* C18: the step from Finished or Aborted to Configuring sets encoderPos to
\* lastReportedPos, so in Configuring the deltas applied and those still to
\* be applied add up to the edges counted while Configuring: edges counted
\* during a countdown or its wait are never applied.
C18_ResyncDiscardsTicks ==
  /\ [](TimerState = "Configuring"
        => applied + (encoderPos - lastReportedPos) = counted)
  /\ [][(TimerState \in {"Finished", "Aborted"} /\ TimerState' = "Configuring")
        => /\ encoderPos' = lastReportedPos
           /\ lastReportedPos' = lastReportedPos
           /\ applied' = applied]_vars

\* back in Configuring after an edge that no iteration of loop() ever saw
C18_Witness ==
  /\ TimerState = "Configuring" /\ buzzer \in {"alarm", "cancel"}
  /\ nTicks = 1 /\ counted = 0
  /\ encoderPos = 0 /\ lastReportedPos = 0

\* C20: every refresh of the display draws a progress bar of 0..SCREEN_WIDTH
\* pixels: a refresh while Counting finds initialTotalSeconds >= 1 and
\* 0 <= remaining <= initialTotalSeconds, a refresh while Configuring finds
\* 0 <= total <= MAX_TIME.
C20_ProgressDefined ==
  /\ [](display.status \in {"Contagem", "Configurar"}
        => display.progress \in 0..SCREEN_WIDTH)
  /\ [][display' # display
        => /\ display'.status = "Contagem"
                => /\ initialTotalSeconds' >= 1
                   /\ 0 <= Total' /\ Total' <= initialTotalSeconds'
           /\ display'.status = "Configurar"
                => (0 <= Total' /\ Total' <= MAX_TIME)]_vars

\* the bar of a running countdown, partly drawn
C20_Witness ==
  /\ TimerState = "Counting" /\ display.status = "Contagem"
  /\ display.progress \in 1..(SCREEN_WIDTH - 1)

====
